---- MODULE Spec2Model ----
(***************************************************************************)
(* Model of pgmpy/readwrite/XMLBIF.py: XMLBIFReader and XMLBIFWriter.      *)
(*                                                                         *)
(* Representation.                                                         *)
(*   - A Python str is a sequence of characters; the characters used are   *)
(*     the entries of Alphabet, NL (a newline), SP (one space) and SP2     *)
(*     (two spaces, the unit indent() multiplies by the level).            *)
(*   - An optional value (None or a value) is the empty sequence or a      *)
(*     one-element sequence.                                               *)
(*   - A dict is a sequence of [k, v] entries in insertion order; storing  *)
(*     under an existing key keeps the key's position.                     *)
(*   - An etree element is a record [tag, attrib, text, tail, children].   *)
(*   - The text handed from tostring() to fromstring() is a sequence of    *)
(*     markup tokens (start tag, end tag, empty-element tag, text run).    *)
(***************************************************************************)
EXTENDS Integers, Sequences, FiniteSets, TLC

VARIABLES model, writer, out, calls, path, string, fileText, reader, raised, ret, pc

vars == <<model, writer, out, calls, path, string, fileText, reader, raised, ret, pc>>

-----------------------------------------------------------------------------
(* Python values *)

None == <<>>

Some(x) == <<x>>

NL == "NL"

SP == "SP"

SP2 == "SP2"

Whitespace == {NL, SP, SP2}

Alphabet == <<"0", "1", "2", "3", "4", "5", "6", "7", "8", "9", "a", "b", "c", "f", "n", "p", "t", "x">>

CharRank(c) == CHOOSE i \in 1..Len(Alphabet) : Alphabet[i] = c

\* str.__lt__: lexicographic comparison by character
RECURSIVE StrLT(_, _)
StrLT(s, t) ==
    IF t = <<>> THEN FALSE
    ELSE IF s = <<>> THEN TRUE
    ELSE IF s[1] = t[1] THEN StrLT(Tail(s), Tail(t))
    ELSE CharRank(s[1]) < CharRank(t[1])

\* not s.strip(): the string holds nothing but whitespace
IsBlankStr(s) == \A i \in 1..Len(s) : s[i] \in Whitespace

\* not x or not x.strip()
IsBlank(x) == x = None \/ IsBlankStr(x[1])

\* "a" * n
RECURSIVE Repeat(_, _)
Repeat(c, n) == IF n <= 0 THEN <<>> ELSE <<c>> \o Repeat(c, n - 1)

RECURSIVE Concat(_)
Concat(ss) == IF ss = <<>> THEN <<>> ELSE Head(ss) \o Concat(Tail(ss))

Reverse(s) == [i \in 1..Len(s) |-> s[Len(s) + 1 - i]]

(* dict *)
DictHas(d, k) == \E i \in 1..Len(d) : d[i].k = k

DictIndex(d, k) == CHOOSE i \in 1..Len(d) : d[i].k = k

DictGet(d, k) == d[DictIndex(d, k)].v

DictSet(d, k, v) ==
    IF DictHas(d, k) THEN [d EXCEPT ![DictIndex(d, k)].v = v]
    ELSE Append(d, [k |-> k, v |-> v])

DictKeys(d) == [i \in 1..Len(d) |-> d[i].k]

\* dict built by a comprehension over the entries es, in order
RECURSIVE DictOf(_)
DictOf(es) ==
    IF es = <<>> THEN <<>>
    ELSE LET n == Len(es) IN DictSet(DictOf(SubSeq(es, 1, n - 1)), es[n].k, es[n].v)

\* sorted(): insertion sort under StrLT
RECURSIVE SortedInsert(_, _)
SortedInsert(s, x) ==
    IF s = <<>> THEN <<x>>
    ELSE IF StrLT(x, Head(s)) THEN <<x>> \o s
    ELSE <<Head(s)>> \o SortedInsert(Tail(s), x)

RECURSIVE sorted(_)
sorted(s) ==
    IF s = <<>> THEN <<>>
    ELSE SortedInsert(sorted(SubSeq(s, 1, Len(s) - 1)), s[Len(s)])

-----------------------------------------------------------------------------
(* etree *)

Element(tag, attrib) ==
    [tag |-> tag, attrib |-> attrib, text |-> None, tail |-> None, children |-> <<>>]

\* etree.SubElement(parent, tag).text = text, for a child that stays a leaf
Leaf(tag, text) == [Element(tag, <<>>) EXCEPT !.text = text]

SubElement(parent, child) == [parent EXCEPT !.children = Append(@, child)]

\* elem.findall(tag): the children with that tag, in document order
findall(elem, tag) == LET Test(c) == c.tag = tag IN SelectSeq(elem.children, Test)

\* elem.find(tag): the first child with that tag, or None
find(elem, tag) ==
    LET found == findall(elem, tag) IN IF found = <<>> THEN None ELSE Some(found[1])

Tok(k, tag, attrib, s) == [k |-> k, tag |-> tag, attrib |-> attrib, s |-> s]

\* etree.tostring(elem): an element without text and children is written as
\* an empty-element tag; an empty text or tail writes no characters
RECURSIVE tostring(_)
tostring(e) ==
    LET hasText == e.text # None /\ e.text[1] # <<>>
        body == (IF hasText THEN <<Tok("text", "", <<>>, e.text[1])>> ELSE <<>>)
                \o Concat([i \in 1..Len(e.children) |-> tostring(e.children[i])])
        markup == IF hasText \/ Len(e.children) > 0
                  THEN <<Tok("start", e.tag, e.attrib, <<>>)>> \o body
                       \o <<Tok("end", e.tag, <<>>, <<>>)>>
                  ELSE <<Tok("empty", e.tag, e.attrib, <<>>)>>
    IN  markup \o (IF e.tail # None /\ e.tail[1] # <<>>
                   THEN <<Tok("text", "", <<>>, e.tail[1])>> ELSE <<>>)

\* the parser of etree.fromstring: [ok, elem, next] for the element starting
\* at token i, with the text run after it as its tail
RECURSIVE ParseElem(_, _)
RECURSIVE ParseChildren(_, _)
ParseFail == [ok |-> FALSE, elem |-> Element("", <<>>), kids |-> <<>>, next |-> 0]

ParseTail(toks, e, j) ==
    IF j <= Len(toks) /\ toks[j].k = "text"
    THEN [ok |-> TRUE, elem |-> [e EXCEPT !.tail = Some(toks[j].s)], kids |-> <<>>, next |-> j + 1]
    ELSE [ok |-> TRUE, elem |-> e, kids |-> <<>>, next |-> j]

ParseElem(toks, i) ==
    IF i > Len(toks) THEN ParseFail
    ELSE IF toks[i].k = "empty"
    THEN ParseTail(toks, Element(toks[i].tag, toks[i].attrib), i + 1)
    ELSE IF toks[i].k = "start"
    THEN LET hasText == i + 1 <= Len(toks) /\ toks[i + 1].k = "text"
             text == IF hasText THEN Some(toks[i + 1].s) ELSE None
             r == ParseChildren(toks, IF hasText THEN i + 2 ELSE i + 1)
         IN  IF ~r.ok THEN ParseFail
             ELSE IF r.next > Len(toks) \/ toks[r.next].tag # toks[i].tag THEN ParseFail
             ELSE ParseTail(toks,
                            [Element(toks[i].tag, toks[i].attrib) EXCEPT
                                !.text = text, !.children = r.kids],
                            r.next + 1)
    ELSE ParseFail

ParseChildren(toks, j) ==
    IF j > Len(toks) THEN ParseFail
    ELSE IF toks[j].k = "end" THEN [ok |-> TRUE, elem |-> Element("", <<>>), kids |-> <<>>, next |-> j]
    ELSE LET r == ParseElem(toks, j) IN
         IF ~r.ok THEN ParseFail
         ELSE LET rest == ParseChildren(toks, r.next) IN
              IF ~rest.ok THEN ParseFail
              ELSE [ok |-> TRUE, elem |-> Element("", <<>>), kids |-> <<r.elem>> \o rest.kids,
                    next |-> rest.next]

\* etree.fromstring(text): the root element (its tail is dropped; anything
\* but whitespace after the root is a ParseError)
fromstring(toks) ==
    LET r == ParseElem(toks, 1) IN
    IF ~r.ok \/ r.next <= Len(toks) \/ ~IsBlank(r.elem.tail)
    THEN [err |-> "ParseError", root |-> Element("", <<>>)]
    ELSE [err |-> "", root |-> [r.elem EXCEPT !.tail = None]]

-----------------------------------------------------------------------------
(* XMLBIFWriter *)

VariableAttrib == <<<<"TYPE", "nature">>>>

BifAttrib == <<<<"version", "0.3">>>>

\* the (key, item) pairs visited by "for key in d: for item in d[key]"
RECURSIVE DictItems(_)
DictItems(d) ==
    IF d = <<>> THEN <<>>
    ELSE [i \in 1..Len(d[1].v) |-> [k |-> d[1].k, v |-> d[1].v[i]]] \o DictItems(Tail(d))

\* etree.SubElement(variable_tag[variable], tag).text = item for each pair;
\* variable_tag[variable] raises KeyError for a name that has no tag
RECURSIVE AddLeaves(_, _, _, _)
AddLeaves(network, variable_tag, items, tag) ==
    IF items = <<>> THEN [err |-> "", network |-> network]
    ELSE IF ~DictHas(variable_tag, items[1].k) THEN [err |-> "KeyError", network |-> network]
    ELSE AddLeaves([network EXCEPT ![DictGet(variable_tag, items[1].k)] =
                        SubElement(@, Leaf(tag, Some(items[1].v)))],
                   variable_tag, Tail(items), tag)

\* an add_variables that iterates the variables list as given
VariableOrder_AsGiven(variables) == variables

\* the order in which add_variables creates the VARIABLE elements
VariableOrder(variables) == sorted(variables)

\* XMLBIFWriter.add_variables, on the children of self.network
add_variables(children, m) ==
    LET names == VariableOrder(m.variables)
        base == Len(children)
        created == children \o [i \in 1..Len(names) |-> Element("VARIABLE", VariableAttrib)]
        variable_tag == DictOf([i \in 1..Len(names) |-> [k |-> names[i], v |-> base + i]])
        withStates == AddLeaves(created, variable_tag, DictItems(m.states), "OUTCOME")
        withProps == AddLeaves(withStates.network, variable_tag, DictItems(m.property), "PROPERTY")
    IN  IF withStates.err # "" THEN [err |-> withStates.err, children |-> children, tag |-> <<>>]
        ELSE IF withProps.err # "" THEN [err |-> withProps.err, children |-> children, tag |-> <<>>]
        ELSE [err |-> "", children |-> withProps.network, tag |-> variable_tag]

\* the order in which add_definition writes the GIVEN children of one DEFINITION
GivenOrder(parentList) == sorted(parentList)

\* XMLBIFWriter.add_definition, on the children of self.network
add_definition(children, m) ==
    LET names == sorted(DictKeys(m.parents))
        base == Len(children)
        Definition(var) ==
            [Element("DEFINITION", <<>>) EXCEPT !.children =
                <<Leaf("FOR", Some(var))>>
                \o (LET given == GivenOrder(DictGet(m.parents, var))
                    IN  [j \in 1..Len(given) |-> Leaf("GIVEN", Some(given[j]))])]
    IN  [err |-> "",
         children |-> children \o [i \in 1..Len(names) |-> Definition(names[i])],
         tag |-> DictOf([i \in 1..Len(names) |-> [k |-> names[i], v |-> base + i]])]

\* XMLBIFWriter.__init__: the object built, or the error raised
XMLBIFWriter_init(m, prettyprint) ==
    LET named == IF m.network_name # None THEN <<Leaf("NAME", m.network_name)>> ELSE <<>>
        vs == add_variables(named, m)
        ds == add_definition(vs.children, m)
        network == [Element("NETWORK", <<>>) EXCEPT !.children = ds.children]
    IN  IF vs.err # "" THEN [err |-> vs.err, obj |-> None]
        ELSE [err |-> "",
              obj |-> Some([xml |-> [Element("BIF", BifAttrib) EXCEPT !.children = <<network>>],
                            prettyprint |-> prettyprint,
                            variables |-> vs.tag,
                            definition |-> ds.tag])]

\* an indent that appends the whitespace to what is there
IndentFill_Appending(old, i) == Some((IF old = None THEN <<>> ELSE old[1]) \o i)

\* what indent() stores in a blank text or tail
IndentFill(old, i) == Some(i)

\* XMLBIFWriter.indent: the element after the in-place pass
RECURSIVE indent(_, _)
indent(elem, level) ==
    LET i == <<NL>> \o Repeat(SP2, level)
        n == Len(elem.children)
    IN  IF n > 0
        THEN LET text == IF IsBlank(elem.text) THEN IndentFill(elem.text, i \o <<SP2>>) ELSE elem.text
                 tail == IF IsBlank(elem.tail) THEN IndentFill(elem.tail, i) ELSE elem.tail
                 kids == [j \in 1..n |-> indent(elem.children[j], level + 1)]
                 \* after the loop, elem names the last child
                 last == IF IsBlank(kids[n].tail)
                         THEN [kids[n] EXCEPT !.tail = IndentFill(@, i)] ELSE kids[n]
             IN  [elem EXCEPT !.text = text, !.tail = tail,
                              !.children = [kids EXCEPT ![n] = last]]
        ELSE IF level # 0 /\ IsBlank(elem.tail)
             THEN [elem EXCEPT !.tail = IndentFill(@, i)]
             ELSE elem

-----------------------------------------------------------------------------
(* XMLBIFReader *)

Digits == <<"0", "1", "2", "3", "4", "5", "6", "7", "8", "9">>

IsDigit(c) == \E i \in 1..Len(Digits) : Digits[i] = c

DigitValue(c) == (CHOOSE i \in 1..Len(Digits) : Digits[i] = c) - 1

\* str.split(): the maximal runs of non-whitespace characters
RECURSIVE split(_)
split(s) ==
    IF s = <<>> THEN <<>>
    ELSE IF s[1] \in Whitespace THEN split(Tail(s))
    ELSE LET rest == split(Tail(s)) IN
         IF Len(s) > 1 /\ s[2] \notin Whitespace
         THEN <<(<<s[1]>> \o rest[1])>> \o Tail(rest)
         ELSE <<(<<s[1]>>)>> \o rest

\* float(word) for a word of decimal digits; any other word is a ValueError
IsFloat(word) == word # <<>> /\ \A i \in 1..Len(word) : IsDigit(word[i])

RECURSIVE float(_)
float(word) ==
    IF word = <<>> THEN 0
    ELSE 10 * float(SubSeq(word, 1, Len(word) - 1)) + DigitValue(word[Len(word)])

\* a reshape that fills the matrix column by column
reshape_ColumnMajor(flat, rows, cols) ==
    [r \in 1..rows |-> [c \in 1..cols |-> flat[(c - 1) * rows + r]]]

\* numpy reshape of a flat array to (rows, cols), row-major
reshape(flat, rows, cols) ==
    [r \in 1..rows |-> [c \in 1..cols |-> flat[(r - 1) * cols + c]]]

\* first error of a sequence of results, "" when there is none
RECURSIVE FirstErr(_)
FirstErr(rs) ==
    IF rs = <<>> THEN ""
    ELSE IF rs[1].err # "" THEN rs[1].err
    ELSE FirstErr(Tail(rs))

\* elem.find(tag).text where find() may return None
FindText(elem, tag) ==
    LET f == find(elem, tag) IN
    IF f = None THEN [err |-> "AttributeError", val |-> None]
    ELSE [err |-> "", val |-> f[1].text]

Texts(elems) == [i \in 1..Len(elems) |-> elems[i].text]

\* XMLBIFReader.get_variables
get_variables(network) ==
    LET rs == LET vs == findall(network, "VARIABLE")
              IN  [i \in 1..Len(vs) |-> FindText(vs[i], "NAME")]
    IN  [err |-> FirstErr(rs), val |-> [i \in 1..Len(rs) |-> rs[i].val]]

\* a get_parents without the [::-1]
ParentList_DocumentOrder(given) == given

\* the value get_parents stores for one DEFINITION
ParentList(given) == Reverse(given)

\* XMLBIFReader.get_parents
get_parents(network) ==
    LET ds == findall(network, "DEFINITION")
        rs == [i \in 1..Len(ds) |-> FindText(ds[i], "FOR")]
    IN  [err |-> FirstErr(rs),
         val |-> DictOf([i \in 1..Len(ds) |->
                            [k |-> rs[i].val,
                             v |-> ParentList(Texts(findall(ds[i], "GIVEN")))]])]

\* a get_edges that writes [key, value] pairs
get_edges_ChildFirst(variable_parents) ==
    LET items == DictItems(variable_parents)
    IN  [err |-> "", val |-> [i \in 1..Len(items) |-> <<items[i].k, items[i].v>>]]

\* XMLBIFReader.get_edges
get_edges(variable_parents) ==
    LET items == DictItems(variable_parents)
    IN  [err |-> "", val |-> [i \in 1..Len(items) |-> <<items[i].v, items[i].k>>]]

\* XMLBIFReader.get_states
get_states(network) ==
    LET vs == findall(network, "VARIABLE")
        rs == [i \in 1..Len(vs) |-> FindText(vs[i], "NAME")]
    IN  [err |-> FirstErr(rs),
         val |-> DictOf([i \in 1..Len(vs) |->
                            [k |-> rs[i].val, v |-> Texts(findall(vs[i], "OUTCOME"))]])]

\* list(map(float, table.text.split()))
TableValues(table) ==
    IF table.text = None THEN [err |-> "AttributeError", val |-> <<>>]
    ELSE LET words == split(table.text[1]) IN
         IF \E i \in 1..Len(words) : ~IsFloat(words[i])
         THEN [err |-> "ValueError", val |-> <<>>]
         ELSE [err |-> "", val |-> [i \in 1..Len(words) |-> float(words[i])]]

\* the (definition, table) pairs of the comprehension in get_cpd
RECURSIVE TableEntries(_)
TableEntries(ds) ==
    IF ds = <<>> THEN <<>>
    ELSE LET ts == findall(ds[1], "TABLE")
             key == FindText(ds[1], "FOR")
         IN  [i \in 1..Len(ts) |->
                 LET tv == TableValues(ts[i]) IN
                 [err |-> IF key.err # "" THEN key.err ELSE tv.err, k |-> key.val, v |-> tv.val]]
             \o TableEntries(Tail(ds))

\* a get_cpd that takes len(self.variable_states) for the row count
StateCount_OfAllVariables(variable_states, variable) == Len(variable_states)

\* len(self.variable_states[variable])
StateCount(variable_states, variable) == Len(DictGet(variable_states, variable))

\* the number of columns get_cpd asks reshape for
Columns(size, rows) == size \div rows

\* a get_cpd that cuts the array to rows * cols values before reshaping it
ReshapeOne_Truncating(variable_states, variable, flat) ==
    IF ~DictHas(variable_states, variable) THEN [err |-> "KeyError", val |-> <<>>]
    ELSE LET rows == StateCount(variable_states, variable) IN
         IF rows = 0 THEN [err |-> "ZeroDivisionError", val |-> <<>>]
         ELSE [err |-> "",
               val |-> reshape(SubSeq(flat, 1, rows * Columns(Len(flat), rows)),
                               rows, Columns(Len(flat), rows))]

\* arr.reshape((len(states), arr.size // len(states))) for one variable
ReshapeOne(variable_states, variable, flat) ==
    IF ~DictHas(variable_states, variable) THEN [err |-> "KeyError", val |-> <<>>]
    ELSE LET rows == StateCount(variable_states, variable) IN
         IF rows = 0 THEN [err |-> "ZeroDivisionError", val |-> <<>>]
         ELSE IF rows * Columns(Len(flat), rows) # Len(flat) THEN [err |-> "ValueError", val |-> <<>>]
         ELSE [err |-> "", val |-> reshape(flat, rows, Columns(Len(flat), rows))]

\* XMLBIFReader.get_cpd
get_cpd(network, variable_states) ==
    LET es == TableEntries(findall(network, "DEFINITION"))
        flat == DictOf(es)
        rs == [i \in 1..Len(flat) |-> ReshapeOne(variable_states, flat[i].k, flat[i].v)]
    IN  IF FirstErr(es) # "" THEN [err |-> FirstErr(es), val |-> <<>>]
        ELSE [err |-> FirstErr(rs),
              val |-> [i \in 1..Len(flat) |-> [k |-> flat[i].k, v |-> rs[i].val]]]

\* XMLBIFReader.get_property
get_property(network) ==
    LET vs == findall(network, "VARIABLE")
        rs == [i \in 1..Len(vs) |-> FindText(vs[i], "NAME")]
    IN  [err |-> FirstErr(rs),
         val |-> DictOf([i \in 1..Len(vs) |->
                            [k |-> rs[i].val, v |-> Texts(findall(vs[i], "PROPERTY"))]])]

\* XMLBIFReader.get_model: the arguments handed to BayesianModel and TabularCPD
get_model(self) ==
    LET Cpd(e) ==
            LET evidence == DictGet(self.variable_parents, e.k) IN
            IF \E j \in 1..Len(evidence) : ~DictHas(self.variable_states, evidence[j])
            THEN [err |-> "KeyError", val |-> <<>>]
            ELSE [err |-> "",
                  val |-> [variable |-> e.k,
                           variable_card |-> Len(DictGet(self.variable_states, e.k)),
                           values |-> e.v,
                           evidence |-> evidence,
                           evidence_card |-> [j \in 1..Len(evidence) |->
                                                 Len(DictGet(self.variable_states, evidence[j]))]]]
        rs == [i \in 1..Len(self.variable_CPD) |-> Cpd(self.variable_CPD[i])]
    IN  [err |-> FirstErr(rs),
         val |-> [edges |-> get_edges(self.variable_parents).val,
                  cpds |-> [i \in 1..Len(rs) |-> rs[i].val]]]

\* a constructor that tests string before path
SourceOf_StringFirst(p, s) ==
    IF s # None /\ s[1] # <<>> THEN "string"
    ELSE IF p # None /\ p[1] # <<>> THEN "path"
    ELSE ""

\* which of the two arguments __init__ reads: "path", "string" or "" (neither)
SourceOf(p, s) ==
    IF p # None /\ p[1] # <<>> THEN "path"
    ELSE IF s # None /\ s[1] # <<>> THEN "string"
    ELSE ""

\* self.network.find('NAME').text
NetworkName(network) == FindText(network, "NAME")

\* XMLBIFReader.__init__(path, string), file being the text stored at path:
\* the object built, or the error raised
XMLBIFReader_init(p, s, file) ==
    LET src == SourceOf(p, s)
        parsed == fromstring(IF src = "path" THEN file ELSE s[1])
        net == find(parsed.root, "NETWORK")
        network == net[1]
        name == NetworkName(network)
        variables == get_variables(network)
        variable_parents == get_parents(network)
        edge_list == get_edges(variable_parents.val)
        variable_states == get_states(network)
        variable_CPD == get_cpd(network, variable_states.val)
        variable_property == get_property(network)
        Fail(e) == [err |-> e, obj |-> None]
    IN  IF src = "" THEN Fail("ValueError")
        ELSE IF parsed.err # "" THEN Fail(parsed.err)
        ELSE IF net = None THEN Fail("AttributeError")
        ELSE IF name.err # "" THEN Fail(name.err)
        ELSE IF variables.err # "" THEN Fail(variables.err)
        ELSE IF variable_parents.err # "" THEN Fail(variable_parents.err)
        ELSE IF variable_states.err # "" THEN Fail(variable_states.err)
        ELSE IF variable_CPD.err # "" THEN Fail(variable_CPD.err)
        ELSE IF variable_property.err # "" THEN Fail(variable_property.err)
        ELSE [err |-> "",
              obj |-> Some([network |-> network,
                            network_name |-> name.val,
                            variables |-> variables.val,
                            variable_parents |-> variable_parents.val,
                            edge_list |-> edge_list.val,
                            variable_states |-> variable_states.val,
                            variable_CPD |-> variable_CPD.val,
                            variable_property |-> variable_property.val])]

-----------------------------------------------------------------------------
(* Bounds and inputs *)

MaxVars == 2

MaxDefs == 2

MaxOutcomes == 2

MaxTable == 4

MaxStrCalls == 3

SeqsUpTo(S, n) == UNION {[1..k -> S] : k \in 0..n}

IsDistinct(s) == \A i, j \in 1..Len(s) : i # j => s[i] # s[j]

DictsOver(keys, Vals) ==
    {[i \in 1..Len(keys) |-> [k |-> keys[i], v |-> f[i]]] : f \in [1..Len(keys) -> Vals]}

NameA == <<"a">>

NameAB == <<"a", "b">>

NameB == <<"b">>

Names == {NameA, NameB}

\* the parent lists: the names in every order, without repetition
GivenLists == {g \in SeqsUpTo(Names, Cardinality(Names)) : IsDistinct(g)}

WriterNames == {NameA, NameAB, NameB}

LabelT == <<"t">>

LabelF == <<"f">>

Labels == <<LabelT, LabelF, <<"x">>, <<"c">>>>

PropertyP == <<"p">>

NetName == <<"n">>

(* model_data records for the writer *)

\* the first n labels
Outcomes(n) == SubSeq(Labels, 1, n)

Model(name, variables, states, property, parents) ==
    [network_name |-> name, variables |-> variables, states |-> states,
     property |-> property, parents |-> parents]

StatesChoices(vs) ==
    {<<>>,
     DictOf([i \in 1..Len(vs) |-> [k |-> vs[i], v |-> Outcomes(MaxOutcomes)]]),
     DictOf([i \in 1..Len(vs) |-> [k |-> vs[Len(vs) + 1 - i], v |-> Reverse(Outcomes(MaxOutcomes))]]),
     <<[k |-> <<"x">>, v |-> <<LabelT>>]>>}

PropertyChoices(vs) ==
    {<<>>} \cup (IF vs = <<>> THEN {} ELSE {<<[k |-> vs[1], v |-> <<PropertyP>>]>>})

\* records that vary the variables, their states and properties
VariableModels ==
    UNION {{Model(n, vs, ss, ps, <<>>) :
                n \in {None, Some(NetName)},
                ss \in StatesChoices(vs),
                ps \in PropertyChoices(vs)} : vs \in SeqsUpTo(WriterNames, MaxVars)}

\* records that vary the parents map
ParentModels ==
    {Model(Some(NetName), <<NameB, NameA>>,
           <<[k |-> NameB, v |-> Outcomes(2)], [k |-> NameA, v |-> Outcomes(2)]>>, <<>>, ps) :
        ps \in UNION {DictsOver(ks, GivenLists) :
                        ks \in {q \in SeqsUpTo(WriterNames, MaxDefs) : IsDistinct(q)}}}

Models == VariableModels \cup ParentModels

(* documents for the reader *)

Leaves(tag, texts) == [i \in 1..Len(texts) |-> Leaf(tag, Some(texts[i]))]

VariableElem(name, outcomes, props) ==
    [Element("VARIABLE", VariableAttrib) EXCEPT !.children =
        (IF name = None THEN <<>> ELSE <<Leaf("NAME", name)>>)
        \o Leaves("OUTCOME", outcomes) \o Leaves("PROPERTY", props)]

DefinitionElem(for, given, tables) ==
    [Element("DEFINITION", <<>>) EXCEPT !.children =
        (IF for = None THEN <<>> ELSE <<Leaf("FOR", for)>>)
        \o Leaves("GIVEN", given) \o Leaves("TABLE", tables)]

Document(name, variables, definitions) ==
    [Element("BIF", BifAttrib) EXCEPT !.children =
        <<[Element("NETWORK", <<>>) EXCEPT !.children =
            (IF name = None THEN <<>> ELSE <<Leaf("NAME", name)>>)
            \o variables \o definitions]>>]

\* the text of a TABLE holding the n numbers 10 + first, 11 + first, ...
RECURSIVE TableText(_, _)
TableText(first, n) ==
    IF n = 0 THEN <<>>
    ELSE <<"1", Digits[first + 1]>> \o (IF n > 1 THEN <<SP>> ELSE <<>>) \o TableText(first + 1, n - 1)


BadTableText == <<"1", "1", SP, "x">>

\* documents that vary the VARIABLE and DEFINITION structure
StructVariables ==
    {VariableElem(None, Outcomes(1), <<>>),
     VariableElem(Some(NameA), Outcomes(2), <<>>),
     VariableElem(Some(NameB), Outcomes(1), <<PropertyP>>)}

StructDefinitions ==
    {DefinitionElem(None, <<>>, <<>>)}
    \cup {DefinitionElem(Some(NameA), g, <<TableText(1, 2)>>) : g \in GivenLists}
    \cup {DefinitionElem(Some(NameB), g, <<>>) : g \in {<<>>, <<NameA>>}}

StructDocs ==
    {Document(Some(NetName), vs, ds) : vs \in SeqsUpTo(StructVariables, MaxVars),
                                       ds \in SeqsUpTo(StructDefinitions, MaxDefs)}
    \cup {Document(None, vs, ds) : vs \in SeqsUpTo(StructVariables, MaxVars),
                                   ds \in SeqsUpTo(StructDefinitions, 1)}

\* documents that vary the state counts and the TABLE texts: variable a with
\* k states and b with j states, one DEFINITION for a with a TABLE of n values,
\* alone or with a second TABLE or DEFINITION before or after it
TableTexts == {TableText(1, n) : n \in 0..MaxTable} \cup {BadTableText}

CpdVariables ==
    UNION {{<<VariableElem(Some(NameA), Outcomes(k), <<>>),
              VariableElem(Some(NameB), Outcomes(j), <<>>)>>,
            <<VariableElem(Some(NameB), Outcomes(j), <<>>),
              VariableElem(Some(NameA), Outcomes(k), <<>>)>>,
            <<VariableElem(Some(NameB), Outcomes(j), <<>>)>>,
            <<VariableElem(Some(NameA), Outcomes(k), <<>>),
              VariableElem(Some(NameA), Outcomes(j), <<>>)>>} :
                k \in 0..MaxOutcomes, j \in 1..MaxOutcomes}

CpdDefinitions ==
    UNION {{<<DefinitionElem(Some(NameA), g, <<t>>)>>,
            <<DefinitionElem(Some(NameA), g, <<>>)>>,
            <<DefinitionElem(Some(NameA), g, <<t>>),
              DefinitionElem(Some(NameB), <<>>, <<TableText(1, 2)>>)>>} :
                g \in {<<>>, <<NameB>>}, t \in TableTexts}
    \cup UNION {{<<DefinitionElem(Some(NameA), <<>>, <<TableText(2, n)>>),
                   DefinitionElem(Some(NameA), g, <<t>>)>>,
                 <<DefinitionElem(Some(NameA), g, <<TableText(2, n), t>>)>>} :
                g \in {<<>>, <<NameB>>}, t \in TableTexts, n \in 0..MaxTable}

CpdDocs == {Document(Some(NetName), vs, ds) : vs \in CpdVariables, ds \in CpdDefinitions}

\* a few documents for the argument combinations of XMLBIFReader.__init__
SmallDoc ==
    Document(Some(NetName),
             <<VariableElem(Some(NameA), Outcomes(2), <<>>)>>,
             <<DefinitionElem(Some(NameA), <<>>, <<TableText(1, 2)>>)>>)

OtherDoc ==
    Document(Some(<<"x">>),
             <<VariableElem(Some(NameB), Outcomes(1), <<>>)>>,
             <<DefinitionElem(Some(NameB), <<>>, <<TableText(5, 1)>>)>>)

\* a text that is not XML (an end tag is missing), and a root without NETWORK
MalformedText == <<Tok("start", "BIF", <<>>, <<>>)>>

NoNetworkText == tostring(Element("BIF", BifAttrib))

FileName == <<"f">>

ArgCombinations ==
    {<<p, s, tostring(SmallDoc)>> :
        p \in {None, Some(<<>>), Some(FileName)},
        s \in {None, Some(<<>>), Some(tostring(SmallDoc)), Some(tostring(OtherDoc))}}
    \cup {<<None, Some(MalformedText), <<>>>>, <<None, Some(NoNetworkText), <<>>>>,
          <<Some(FileName), None, tostring(OtherDoc)>>}

StringArgs(docs) == {<<None, Some(tostring(d)), <<>>>> : d \in docs}

-----------------------------------------------------------------------------
(* The state machine *)

NoModel ==
    [network_name |-> None, variables |-> <<>>, states |-> <<>>,
     property |-> <<>>, parents |-> <<>>]

NoRet == [method |-> "", err |-> "", val |-> <<>>]

InitArgs(args) ==
    /\ model = NoModel
    /\ writer = None
    /\ out = None
    /\ calls = 0
    /\ \E a \in args : path = a[1] /\ string = a[2] /\ fileText = a[3]
    /\ reader = None
    /\ raised = ""
    /\ ret = NoRet
    /\ pc = "args"

InitReader == InitArgs(ArgCombinations \cup StringArgs(StructDocs))

InitCpd == InitArgs(StringArgs(CpdDocs))

\* reader = XMLBIFReader(path, string)
NewReader ==
    /\ pc = "args"
    /\ LET r == XMLBIFReader_init(path, string, fileText) IN
        /\ reader' = r.obj
        /\ raised' = r.err
        /\ pc' = IF r.err = "" THEN "reader" ELSE "rerror"
    /\ UNCHANGED <<model, writer, out, calls, path, string, fileText, ret>>

Ret(method, r) == [method |-> method, err |-> r.err, val |-> r.val]

\* reader.get_variables()
Call_get_variables ==
    /\ pc = "reader"
    /\ ret' = Ret("get_variables", get_variables(reader[1].network))
    /\ UNCHANGED <<model, writer, out, calls, path, string, fileText, reader, raised, pc>>

\* reader.get_edges()
Call_get_edges ==
    /\ pc = "reader"
    /\ ret' = Ret("get_edges", get_edges(reader[1].variable_parents))
    /\ UNCHANGED <<model, writer, out, calls, path, string, fileText, reader, raised, pc>>

\* reader.get_states()
Call_get_states ==
    /\ pc = "reader"
    /\ ret' = Ret("get_states", get_states(reader[1].network))
    /\ UNCHANGED <<model, writer, out, calls, path, string, fileText, reader, raised, pc>>

\* reader.get_parents()
Call_get_parents ==
    /\ pc = "reader"
    /\ ret' = Ret("get_parents", get_parents(reader[1].network))
    /\ UNCHANGED <<model, writer, out, calls, path, string, fileText, reader, raised, pc>>

\* reader.get_cpd()
Call_get_cpd ==
    /\ pc = "reader"
    /\ ret' = Ret("get_cpd", get_cpd(reader[1].network, reader[1].variable_states))
    /\ UNCHANGED <<model, writer, out, calls, path, string, fileText, reader, raised, pc>>

\* reader.get_property()
Call_get_property ==
    /\ pc = "reader"
    /\ ret' = Ret("get_property", get_property(reader[1].network))
    /\ UNCHANGED <<model, writer, out, calls, path, string, fileText, reader, raised, pc>>

\* reader.get_model()
Call_get_model ==
    /\ pc = "reader"
    /\ ret' = Ret("get_model", get_model(reader[1]))
    /\ UNCHANGED <<model, writer, out, calls, path, string, fileText, reader, raised, pc>>

NextReader ==
    \/ NewReader
    \/ Call_get_variables
    \/ Call_get_edges
    \/ Call_get_states
    \/ Call_get_parents
    \/ Call_get_cpd
    \/ Call_get_property
    \/ Call_get_model

SpecReader == InitReader /\ [][NextReader]_vars

SpecCpd == InitCpd /\ [][NextReader]_vars


InitWriter ==
    /\ model \in Models
    /\ writer = None
    /\ out = None
    /\ calls = 0
    /\ path = None
    /\ string = None
    /\ fileText = <<>>
    /\ reader = None
    /\ raised = ""
    /\ ret = NoRet
    /\ pc = "model"

\* writer = XMLBIFWriter(model, prettyprint=prettyprint)
NewWriter ==
    /\ pc = "model"
    /\ \E prettyprint \in BOOLEAN :
        LET w == XMLBIFWriter_init(model, prettyprint) IN
        /\ writer' = w.obj
        /\ raised' = w.err
        /\ pc' = IF w.err = "" THEN "writer" ELSE "werror"
    /\ UNCHANGED <<model, out, calls, path, string, fileText, reader, ret>>

\* XMLBIFWriter.__str__: the tree after the call and the text returned
XMLBIFWriter_str(w) ==
    LET xml == IF w.prettyprint THEN indent(w.xml, 0) ELSE w.xml
    IN  [obj |-> [w EXCEPT !.xml = xml], val |-> tostring(xml)]

\* out = writer.__str__()
Str ==
    /\ pc = "writer"
    /\ calls < MaxStrCalls
    /\ LET r == XMLBIFWriter_str(writer[1]) IN
        /\ writer' = Some(r.obj)
        /\ out' = Some(r.val)
    /\ calls' = calls + 1
    /\ UNCHANGED <<model, path, string, fileText, reader, raised, ret, pc>>

\* reader = XMLBIFReader(string=out)
ReadBack ==
    /\ pc = "writer"
    /\ out # None
    /\ path' = None
    /\ string' = out
    /\ LET r == XMLBIFReader_init(None, out, fileText) IN
        /\ reader' = r.obj
        /\ raised' = r.err
        /\ pc' = IF r.err = "" THEN "reader" ELSE "rerror"
    /\ UNCHANGED <<model, writer, out, calls, fileText, ret>>

NextWriter ==
    \/ NewWriter
    \/ Str
    \/ ReadBack
    \/ Call_get_variables
    \/ Call_get_edges
    \/ Call_get_states
    \/ Call_get_parents
    \/ Call_get_cpd
    \/ Call_get_property
    \/ Call_get_model

SpecWriter == InitWriter /\ [][NextWriter]_vars

-----------------------------------------------------------------------------
(* Properties of the reader *)

\* an argument that Python treats as true: not None and not empty
Given(x) == x # None /\ x[1] # <<>>

Finished == pc \in {"reader", "rerror"}

Outcome == [err |-> raised, obj |-> reader]

\* the DEFINITION elements of the document a constructed reader holds
Definitions == findall(reader[1].network, "DEFINITION")

ForOf(d) == find(d, "FOR")[1].text

GivenOf(d) == Texts(findall(d, "GIVEN"))

\* no later DEFINITION has the FOR text of the i-th one
IsLastFor(ds, i) == \A j \in (i + 1)..Len(ds) : ForOf(ds[j]) # ForOf(ds[i])

IsFirstFor(ds, i) == \A j \in 1..(i - 1) : ForOf(ds[j]) # ForOf(ds[i])

\* the edges written block by block, one block per key of the parents map
EdgeBlocks(parents) ==
    Concat([i \in 1..Len(parents) |->
               [j \in 1..Len(parents[i].v) |-> <<parents[i].v[j], parents[i].k>>]])

\* the keys of the parents map are the FOR texts in order of first appearance
KeysInFirstAppearanceOrder(parents, ds) ==
    LET firsts == {i \in 1..Len(ds) : IsFirstFor(ds, i)} IN
    /\ Len(parents) = Cardinality(firsts)
    /\ \A i \in firsts :
        parents[Cardinality({j \in firsts : j <= i})].k = ForOf(ds[i])

\* C2 (as stated): the constructor raises ValueError when neither or both of
\* path and string are given, and succeeds only when exactly one is given.
C2_ExactlyOneOfPathAndString ==
    Finished =>
        /\ (Given(path) <=> Given(string)) => raised = "ValueError"
        /\ raised = "" => ~(Given(path) <=> Given(string))

\* C2 (amended): the constructor raises ValueError when neither path nor
\* string is given; when path is given the document at path is read and string
\* is ignored, whether or not string is given too; otherwise string is read.
C2_PathTakesPrecedence ==
    Finished =>
        /\ (~Given(path) /\ ~Given(string)) => (raised = "ValueError" /\ reader = None)
        /\ Given(path) => Outcome = XMLBIFReader_init(path, None, fileText)
        /\ (~Given(path) /\ Given(string)) => Outcome = XMLBIFReader_init(None, string, <<>>)
        /\ (Given(path) /\ raised = "") =>
                reader[1].network = find(fromstring(fileText).root, "NETWORK")[1]

C2_Witness_BothGiven ==
    /\ pc = "reader"
    /\ Given(path)
    /\ string = Some(tostring(OtherDoc))
    /\ reader[1].network_name = Some(NetName)

\* the text the constructor reads, its NETWORK element, and the same document
\* with a NAME child added to NETWORK
InputText == IF Given(path) THEN fileText ELSE string[1]

InputRoot == fromstring(InputText).root

NetworkIndex(root) == CHOOSE i \in 1..Len(root.children) : root.children[i].tag = "NETWORK"

WithNetworkName(root) ==
    [root EXCEPT !.children[NetworkIndex(root)].children = <<Leaf("NAME", Some(NetName))>> \o @]

HasNetworkWithoutName ==
    /\ SourceOf(path, string) # ""
    /\ fromstring(InputText).err = ""
    /\ find(InputRoot, "NETWORK") # None
    /\ find(find(InputRoot, "NETWORK")[1], "NAME") = None

ReadWithName == XMLBIFReader_init(None, Some(tostring(WithNetworkName(InputRoot))), <<>>)

\* C3: for a document whose NETWORK element has no NAME child but is otherwise
\* well-formed (it reads once a NAME is added), construction raises no error,
\* leaves network_name unset and populates the other fields as usual.
C3_MissingNetworkNameTolerated ==
    (Finished /\ HasNetworkWithoutName /\ ReadWithName.err = "") =>
        /\ raised = ""
        /\ reader # None
        /\ reader[1].network_name = None
        /\ reader[1].variables = ReadWithName.obj[1].variables
        /\ reader[1].variable_states = ReadWithName.obj[1].variable_states
        /\ reader[1].variable_parents = ReadWithName.obj[1].variable_parents
        /\ reader[1].edge_list = ReadWithName.obj[1].edge_list
        /\ reader[1].variable_CPD = ReadWithName.obj[1].variable_CPD
        /\ reader[1].variable_property = ReadWithName.obj[1].variable_property

\* C4 (as stated): for every DEFINITION element with FOR text c and GIVEN
\* children g1..gn, get_parents()[c] is [gn, ..., g1], and get_edges() lists
\* the pairs [gn, c], ..., [g1, c] consecutively, block by block in the
\* insertion order of the parents map.
C4_EveryDefinitionReversed ==
    pc = "reader" =>
        LET parents == reader[1].variable_parents IN
        /\ \A i \in 1..Len(Definitions) :
            /\ DictHas(parents, ForOf(Definitions[i]))
            /\ DictGet(parents, ForOf(Definitions[i])) = Reverse(GivenOf(Definitions[i]))
        /\ reader[1].edge_list = EdgeBlocks(parents)
        /\ KeysInFirstAppearanceOrder(parents, Definitions)

\* C4 (amended): for every DEFINITION element that is the last one with its
\* FOR text c, with GIVEN children g1..gn, get_parents()[c] is [gn, ..., g1]
\* (a later DEFINITION with the same FOR text replaces the list of an earlier
\* one), and get_edges() lists the pairs [gn, c], ..., [g1, c] consecutively,
\* block by block in the insertion order of the parents map, which is the
\* order in which the FOR texts first appear.
C4_LastDefinitionReversed ==
    pc = "reader" =>
        LET parents == reader[1].variable_parents IN
        /\ \A i \in 1..Len(Definitions) :
            /\ DictHas(parents, ForOf(Definitions[i]))
            /\ IsLastFor(Definitions, i) =>
                DictGet(parents, ForOf(Definitions[i])) = Reverse(GivenOf(Definitions[i]))
        /\ reader[1].edge_list = EdgeBlocks(parents)
        /\ KeysInFirstAppearanceOrder(parents, Definitions)
        /\ ret.method = "get_parents" => ret.val = parents
        /\ ret.method = "get_edges" => ret.val = EdgeBlocks(parents)

C4_Witness_TwoGiven ==
    /\ pc = "reader"
    /\ ret.method = "get_edges"
    /\ Len(reader[1].variable_parents) = 2
    /\ \E i \in 1..Len(Definitions) :
        /\ IsLastFor(Definitions, i)
        /\ Len(GivenOf(Definitions[i])) = 2
        /\ GivenOf(Definitions[i])[1] # GivenOf(Definitions[i])[2]

\* the variables of a constructed reader that no DEFINITION element names
Undefined ==
    {reader[1].variables[i] : i \in 1..Len(reader[1].variables)}
    \ {ForOf(Definitions[i]) : i \in 1..Len(Definitions)}

IsChild(v) == \E i \in 1..Len(reader[1].edge_list) : reader[1].edge_list[i][2] = v

\* C9 (as stated): a variable without a DEFINITION element has the empty
\* list as its parent list and is the child of no pair of get_edges().
C9_UndefinedHasEmptyParentList ==
    pc = "reader" =>
        \A v \in Undefined :
            /\ DictHas(reader[1].variable_parents, v)
            /\ DictGet(reader[1].variable_parents, v) = <<>>
            /\ ~IsChild(v)

\* C9 (amended): a variable without a DEFINITION element has no entry in
\* get_parents() at all (looking it up raises KeyError; it is not mapped to an
\* empty list), and it is the child of no pair of get_edges().
C9_UndefinedHasNoEntry ==
    pc = "reader" =>
        \A v \in Undefined :
            /\ ~DictHas(reader[1].variable_parents, v)
            /\ ~IsChild(v)
            /\ ret.method = "get_parents" => ~DictHas(ret.val, v)
            /\ ret.method = "get_edges" =>
                    \A i \in 1..Len(ret.val) : ret.val[i][2] # v

C9_Witness_UndefinedParent ==
    /\ pc = "reader"
    /\ ret.method = "get_edges"
    /\ \E v \in Undefined :
        \E i \in 1..Len(reader[1].edge_list) : reader[1].edge_list[i][1] = v

-----------------------------------------------------------------------------
(* Properties of the conditional probability tables *)

\* the (FOR text, TABLE values) pairs of a NETWORK element in document order
Tables(network) == TableEntries(findall(network, "DEFINITION"))

\* the pair at i is the last one with its FOR text
IsLastTable(ts, i) == \A j \in (i + 1)..Len(ts) : ts[j].k # ts[i].k

\* the values of the last TABLE of variable v
LastValues(ts, v) == ts[CHOOSE i \in 1..Len(ts) : ts[i].k = v /\ IsLastTable(ts, i)].v

Flatten(matrix) == Concat(matrix)

IsMatrix(matrix, rows, cols) ==
    /\ Len(matrix) = rows
    /\ \A r \in 1..rows : Len(matrix[r]) = cols

Divides(k, n) == \E m \in 0..n : k * m = n

RECURSIVE Product(_)
Product(ns) == IF ns = <<>> THEN 1 ELSE Head(ns) * Product(Tail(ns))

\* C5: for every variable with k >= 1 states whose TABLE text holds k*m
\* numbers, get_cpd()[var] has k rows and m columns, its entry at row r and
\* column c is number r*m + c of the text (counting rows, columns and numbers
\* from 0), and its rows read one after the other give the text's numbers in
\* order. The TABLE text of a variable is the one the reader keeps for it, the
\* last in document order.
C5_ReshapeRowMajor ==
    pc = "reader" =>
        LET cpd == reader[1].variable_CPD
            ts == Tables(reader[1].network)
        IN  /\ \A i \in 1..Len(ts) : DictHas(cpd, ts[i].k)
            /\ \A i \in 1..Len(cpd) :
                LET k == Len(DictGet(reader[1].variable_states, cpd[i].k))
                    flat == LastValues(ts, cpd[i].k)
                IN  /\ k >= 1
                    /\ \E m \in 0..Len(flat) :
                        /\ Len(flat) = k * m
                        /\ IsMatrix(cpd[i].v, k, m)
                        /\ \A r \in 0..(k - 1) : \A c \in 0..(m - 1) :
                            cpd[i].v[r + 1][c + 1] = flat[r * m + c + 1]
                    /\ Flatten(cpd[i].v) = flat
            /\ ret.method = "get_cpd" => ret.val = cpd

C5_Witness_TwoByTwo ==
    /\ pc = "reader"
    /\ ret.method = "get_cpd"
    /\ \E i \in 1..Len(reader[1].variable_CPD) :
        /\ IsMatrix(reader[1].variable_CPD[i].v, 2, 2)
        /\ Flatten(reader[1].variable_CPD[i].v) = <<11, 12, 13, 14>>

\* the input has a NETWORK element whose variables all have a NAME
InputReadable ==
    /\ SourceOf(path, string) # ""
    /\ fromstring(InputText).err = ""
    /\ find(InputRoot, "NETWORK") # None
    /\ get_states(find(InputRoot, "NETWORK")[1]).err = ""

InputNetwork == find(InputRoot, "NETWORK")[1]

\* the number of values of table entry e is not a multiple of the state count
\* of its FOR variable, a declared variable
Indivisible(network, e) ==
    LET states == get_states(network).val IN
    /\ e.err = ""
    /\ DictHas(states, e.k)
    /\ ~Divides(Len(DictGet(states, e.k)), Len(e.v))

\* C6 (as stated): whenever the number of values of a DEFINITION's TABLE text
\* is not evenly divisible by the state count of its FOR variable,
\* construction raises an error and yields no reader.
C6_AnyIndivisibleTableRaises ==
    (Finished /\ InputReadable) =>
        LET ts == Tables(InputNetwork) IN
        (\E i \in 1..Len(ts) : Indivisible(InputNetwork, ts[i])) =>
            (raised # "" /\ reader = None)

\* C6 (amended): the reader keeps one TABLE per FOR text, the last in document
\* order; whenever the number of values of that TABLE is not evenly divisible
\* by the state count of its FOR variable, construction raises an error and
\* yields no reader, and a constructed reader never holds a matrix with fewer
\* values than the TABLE it kept. An earlier TABLE with the same FOR text is
\* dropped without being checked.
C6_LastIndivisibleTableRaises ==
    /\ (Finished /\ InputReadable) =>
        LET ts == Tables(InputNetwork) IN
        (\E i \in 1..Len(ts) : IsLastTable(ts, i) /\ Indivisible(InputNetwork, ts[i])) =>
            (raised # "" /\ reader = None)
    /\ pc = "reader" =>
        \A i \in 1..Len(reader[1].variable_CPD) :
            Len(Flatten(reader[1].variable_CPD[i].v))
                = Len(LastValues(Tables(reader[1].network), reader[1].variable_CPD[i].k))

C6_Witness_ReshapeError ==
    /\ pc = "rerror"
    /\ raised = "ValueError"
    /\ InputReadable
    /\ LET ts == Tables(InputNetwork) IN
        /\ \A i \in 1..Len(ts) : ts[i].err = ""
        /\ \E i \in 1..Len(ts) :
            /\ IsLastTable(ts, i)
            /\ Indivisible(InputNetwork, ts[i])
            /\ Len(DictGet(get_states(InputNetwork).val, ts[i].k)) = 2
            /\ Len(ts[i].v) = 3

\* the state counts of the parents of v, when every parent is declared
ParentsDeclared(v) ==
    \A j \in 1..Len(DictGet(reader[1].variable_parents, v)) :
        DictHas(reader[1].variable_states, DictGet(reader[1].variable_parents, v)[j])

ParentCards(v) ==
    LET ps == DictGet(reader[1].variable_parents, v)
    IN  [j \in 1..Len(ps) |-> Len(DictGet(reader[1].variable_states, ps[j]))]

\* C8 (as stated): in every constructed reader, the matrix of each variable v
\* of variable_CPD has as many rows as v has states and as many columns as the
\* product of the state counts of v's parents (1 without parents).
C8_ColumnsEqualParentProduct ==
    pc = "reader" =>
        \A i \in 1..Len(reader[1].variable_CPD) :
            LET v == reader[1].variable_CPD[i].k IN
            /\ ParentsDeclared(v)
            /\ IsMatrix(reader[1].variable_CPD[i].v,
                        Len(DictGet(reader[1].variable_states, v)),
                        Product(ParentCards(v)))

\* C8 (amended): in every constructed reader, the matrix of each variable v
\* of variable_CPD has as many rows as v has states and as many columns as the
\* number of values of v's TABLE divided by that row count, rows times columns
\* being the number of values; the column count is not compared with the state
\* counts of v's parents, and get_model() passes the row count as cardinality.
C8_ColumnsEqualSizeOverRows ==
    pc = "reader" =>
        /\ \A i \in 1..Len(reader[1].variable_CPD) :
            LET v == reader[1].variable_CPD[i].k
                rows == Len(DictGet(reader[1].variable_states, v))
                size == Len(LastValues(Tables(reader[1].network), v))
            IN  /\ rows >= 1
                /\ size = rows * (size \div rows)
                /\ IsMatrix(reader[1].variable_CPD[i].v, rows, size \div rows)
        /\ (ret.method = "get_model" /\ ret.err = "") =>
            \A i \in 1..Len(ret.val.cpds) :
                /\ ret.val.cpds[i].values = reader[1].variable_CPD[i].v
                /\ ret.val.cpds[i].variable_card = Len(ret.val.cpds[i].values)
                /\ ret.val.cpds[i].evidence_card = ParentCards(ret.val.cpds[i].variable)

C8_Witness_OneParent ==
    /\ pc = "reader"
    /\ ret.method = "get_model"
    /\ ret.err = ""
    /\ \E i \in 1..Len(ret.val.cpds) :
        /\ ret.val.cpds[i].evidence_card = <<2>>
        /\ IsMatrix(ret.val.cpds[i].values, 1, 2)

-----------------------------------------------------------------------------
(* Properties of the writer *)

\* the NETWORK element of the writer's tree
WrittenNetwork == writer[1].xml.children[1]

Count(seq, x) == Cardinality({i \in 1..Len(seq) : seq[i] = x})

\* the values of a dict entry, [] when the key is missing
GetOrEmpty(d, k) == IF DictHas(d, k) THEN DictGet(d, k) ELSE <<>>

\* the same record with the variables list, the keys of the parents map and
\* every parent list in the opposite order
Reordered(m) ==
    [m EXCEPT !.variables = Reverse(m.variables),
              !.parents = Reverse([i \in 1..Len(m.parents) |->
                                      [k |-> m.parents[i].k, v |-> Reverse(m.parents[i].v)]])]

\* C7: whatever the order of the variables list and of the keys and values of
\* the parents map, the VARIABLE elements are created in sorted order of the
\* variable names, the DEFINITION elements are in sorted order of their FOR
\* text, the GIVEN children of each DEFINITION are in sorted order, and a
\* record that differs only in these orders gives the same tree.
C7_CanonicalOrder ==
    pc = "writer" =>
        LET names == DictKeys(writer[1].variables)
            tag == writer[1].variables
            children == WrittenNetwork.children
            defs == findall(WrittenNetwork, "DEFINITION")
        IN  /\ Len(findall(WrittenNetwork, "VARIABLE")) = Len(model.variables)
            /\ \A i \in 1..Len(model.variables) : DictHas(tag, model.variables[i])
            /\ \A i \in 1..Len(names) :
                /\ children[DictGet(tag, names[i])].tag = "VARIABLE"
                /\ Texts(findall(children[DictGet(tag, names[i])], "OUTCOME"))
                        = [j \in 1..Len(GetOrEmpty(model.states, names[i])) |->
                              Some(GetOrEmpty(model.states, names[i])[j])]
            /\ \A i, j \in 1..Len(names) :
                StrLT(names[i], names[j]) => DictGet(tag, names[i]) < DictGet(tag, names[j])
            /\ Len(defs) = Len(model.parents)
            /\ \A i, j \in 1..Len(defs) :
                i < j => StrLT(ForOf(defs[i])[1], ForOf(defs[j])[1])
            /\ \A i \in 1..Len(defs) :
                LET given == GivenOf(defs[i])
                    listed == DictGet(model.parents, ForOf(defs[i])[1])
                IN  /\ \A a, b \in 1..Len(given) : a < b => ~StrLT(given[b][1], given[a][1])
                    /\ Len(given) = Len(listed)
                    /\ \A a \in 1..Len(listed) :
                        Count(given, Some(listed[a])) = Count(listed, listed[a])
            /\ calls = 0 =>
                writer[1].xml = XMLBIFWriter_init(Reordered(model), writer[1].prettyprint).obj[1].xml

C7_Witness_Unsorted ==
    /\ pc = "writer"
    /\ calls = 0
    /\ model.variables = <<NameB, NameA>>
    /\ DictKeys(model.parents) = <<NameB, NameA>>
    /\ DictGet(model.parents, NameA) = <<NameB, NameA>>

\* an element without its whitespace: blank text counts as no text, and the
\* tail is left out
RECURSIVE Structure(_)
Structure(e) ==
    [tag |-> e.tag, attrib |-> e.attrib,
     text |-> IF IsBlank(e.text) THEN None ELSE e.text,
     children |-> [i \in 1..Len(e.children) |-> Structure(e.children[i])]]

\* C10: with prettyprint enabled, every call of __str__ leaves the elements
\* and every non-blank text as they are, and from the second call on the call
\* changes no text and no tail and returns the same output as the call before.
C10_StrStable ==
    [][(pc = "writer" /\ pc' = "writer" /\ writer[1].prettyprint) =>
            /\ Structure(writer'[1].xml) = Structure(writer[1].xml)
            /\ calls >= 1 => (writer' = writer /\ out' = out)]_vars

C10_Witness_ThirdCall ==
    /\ pc = "writer"
    /\ calls = 3
    /\ writer[1].prettyprint
    /\ \E i \in 1..Len(WrittenNetwork.children) :
        /\ WrittenNetwork.children[i].tag = "VARIABLE"
        /\ Len(WrittenNetwork.children[i].children) >= 2
        /\ WrittenNetwork.children[i].children[Len(WrittenNetwork.children[i].children)].tail
                = Some(<<NL, SP2, SP2>>)
        /\ WrittenNetwork.children[i].children[1].tail = Some(<<NL, SP2, SP2, SP2>>)
        /\ WrittenNetwork.children[i].text = Some(<<NL, SP2, SP2, SP2>>)

\* C1: writing a record with variables V and states S and reading the text
\* back gives a reader whose get_variables() is V as a set and whose
\* get_states()[v] is S[v] for every v in V. Stated for the records that carry
\* a network name, so that the NAME child of NETWORK is there to be read.
C1_RoundTrip ==
    (Finished /\ writer # None /\ model.network_name # None) =>
        /\ raised = ""
        /\ reader # None
        /\ {reader[1].variables[i] : i \in 1..Len(reader[1].variables)}
                = {Some(model.variables[i]) : i \in 1..Len(model.variables)}
        /\ \A i \in 1..Len(model.variables) :
            DictHas(model.states, model.variables[i]) =>
                /\ DictHas(reader[1].variable_states, Some(model.variables[i]))
                /\ DictGet(reader[1].variable_states, Some(model.variables[i]))
                        = [j \in 1..Len(DictGet(model.states, model.variables[i])) |->
                              Some(DictGet(model.states, model.variables[i])[j])]

====
